---- MODULE Spec2Model ----
(***************************************************************************)
(* Graceful-shutdown server of kata 03 (Server, workerPool, cacheWarmer,   *)
(* dbConnection) as a state machine.  Every goroutine of the program is a  *)
(* process with its own program counter; channels are a closed flag (and,  *)
(* for the buffered request channel, a sequence); a Go select with several *)
(* ready cases is a nondeterministic choice among them.                    *)
(***************************************************************************)
EXTENDS Naturals, Sequences, FiniteSets, TLC

\* ---------------------------------------------------------------- bounds
\* Config.WorkerPoolSize of the modelled server.
PoolSize == 2
\* Number of HTTP requests the clients send during the run.
NumRequests == 1
\* Number of goroutines that call Server.Stop.
NumCallers == 2

Workers == 1..PoolSize
Requests == 1..NumRequests
Callers == 1..NumCallers

\* Largest int key the goroutines use; the keys are 0..MaxKey.
MaxKey == 2
\* Largest value stored; 0 stands for "absent" (the zero value with false).
MaxVal == 2
\* Largest shard count requested of NewShardedMap; 0 is requested too.
MaxShards == 3
\* Goroutines calling the map.
NumMapProcs == 2

MapKeys == 0..MaxKey
MapVals == 1..MaxVal
MapProcs == 1..NumMapProcs
\* Goroutines that each make one call on the map at the same time.
NumMixProcs == 3
MixProcs == 1..NumMixProcs
AllMapProcs == MapProcs \cup MixProcs

\* newWorkerPool: requestCh is make(chan *request, size*2).
QueueCap == PoolSize * 2

VARIABLES
    started,        \* Start has returned nil
    rootCancelled,  \* rootCtx.Done() is closed
    shutdownCh,     \* s.shutdownCh is closed
    once,           \* s.shutdownOnce: "idle", "running", "done"
    runner,         \* the Stop caller whose Once.Do ran the function (0: none yet)
    swg,            \* s.wg counter
    dbConn,         \* dbConnection: "Unopened", "Open" (conn != nil), "Closed"
    inShutdown,     \* httpServer.Shutdown has been called (listeners closed)
    ingressPc,      \* the goroutine running ListenAndServe
    sPc,            \* per Stop caller: position inside Stop
    shutdownErr,    \* per Stop caller: its local variable shutdownErr
    retVal,         \* per Stop caller: the value Stop returned
    deadline,       \* shutdownCtx: "none", "armed", "elapsed"
    poolWaiter,     \* goroutine of workerPool.stop doing wp.wg.Wait(); close(done)
    swgWaiter,      \* goroutine of Server.Stop doing s.wg.Wait(); close(done)
    ran,            \* how many times each step of the shutdown protocol ran
    timedOut,       \* a wait of the protocol took its ctx.Done() branch
    failLog,        \* the steps of the protocol that returned an error, in order
    wpWorkers,      \* wp.workers
    wpwg,           \* wp.wg counter
    requestCh,      \* buffered items of wp.requestCh
    requestChClosed,\* wp.requestCh is closed
    stopCh,         \* wp.stopCh is closed
    supPc,          \* workerPool.start goroutine
    supI,           \* loop variable i of workerPool.start
    wPc,            \* per worker goroutine
    wItem,          \* per worker: the request it is processing (0: none)
    startCount,     \* per request: times processRequest was entered for it
    outcome,        \* per request: how processRequest ended
    cwPc,           \* cacheWarmer.start goroutine
    tickerLive,     \* cw.ticker has not been stopped
    hPc,            \* per request: the connection / handler goroutine
    hRes,           \* per request: what handleRequest did
    hLate,          \* per request not answered 503: handleRequest was entered after Shutdown was called
    hDrain,         \* per request not answered 503: submit was entered after drain had begun
    hEarly,         \* per request enqueued: submit returned nil before drain began
    startRet,       \* what the calls of Start returned so far, in order
    panicked,       \* the process died of a nil pointer dereference
    uConn,          \* db.conn: the connection the handle holds (0: nil)
    uMade,          \* connections created by connect so far
    uLive,          \* connections created and not closed
    uRet,           \* what the last call of connect or close returned
    mCount,         \* sm.shardCount (0: no map constructed yet)
    mShards,        \* sm.shards: per shard index, per key, the value (0: absent)
    mWriter,        \* per shard: the goroutine holding shardMutex[i].Lock (0: none)
    mReaders,       \* per shard: the goroutines holding shardMutex[i].RLock
    mWaitW,         \* per shard: the goroutines blocked in shardMutex[i].Lock
    mPc,            \* per map goroutine: position inside its call
    mOp,            \* per map goroutine: its current or last call
    mI,             \* per map goroutine: loop index i of Keys
    mOut,           \* per map goroutine: the slice keys of Keys
    mGot,           \* per map goroutine: the value Get read (0: exists is false)
    mRef,           \* one plain map that receives the same writes
    mSnap,          \* per map goroutine: mRef when Keys held every lock
    aState,         \* the aggregator: "none", "ready", "launching", "running", "returned"
    aWillErr,       \* per service: willErr
    fPc,            \* per service: the goroutine of g.Go: "none", "start", "waiting", "done"
    fRes,           \* per service: what Fetch returned
    gCtxErr,        \* gCtx.Err(): "none", "canceled", "deadline"
    gErr,           \* the error the errgroup holds (<<>>: nil, or <<service, error>>)
    aErrLog,        \* the errors the goroutines returned, in order
    aResult,        \* profileResult and orderResult ("" until assigned)
    aRet            \* what Aggregate returned (result <<>>: "", err <<>>: nil)

serverVars == <<started, rootCancelled, shutdownCh, once, runner, swg, dbConn, inShutdown, ingressPc>>
stopVars == <<sPc, shutdownErr, retVal, deadline, poolWaiter, swgWaiter, ran, timedOut, failLog>>
poolVars == <<wpWorkers, wpwg, requestCh, requestChClosed, stopCh, supPc, supI, wPc, wItem, startCount, outcome>>
warmerVars == <<cwPc, tickerLive>>
handlerVars == <<hPc, hRes, hLate, hDrain, hEarly>>
lifeVars == <<startRet, panicked>>
unitVars == <<uConn, uMade, uLive, uRet>>
mapVars == <<mCount, mShards, mWriter, mReaders, mWaitW, mPc, mOp, mI, mOut, mGot, mRef, mSnap>>
aggVars == <<aState, aWillErr, fPc, fRes, gCtxErr, gErr, aErrLog, aResult, aRet>>
extVars == <<lifeVars, unitVars, mapVars, aggVars>>
vars == <<serverVars, stopVars, poolVars, warmerVars, handlerVars, extVars>>

Steps == {"cancel", "ingress", "pool", "wait", "close", "mark"}

\* NewServer: rootCtx not cancelled, shutdownCh open; nothing else exists yet.
Init ==
    /\ started = FALSE
    /\ rootCancelled = FALSE
    /\ shutdownCh = FALSE
    /\ once = "idle"
    /\ runner = 0
    /\ swg = 0
    /\ dbConn = "Unopened"
    /\ inShutdown = FALSE
    /\ ingressPc = "none"
    /\ sPc = [c \in Callers |-> "idle"]
    /\ shutdownErr = [c \in Callers |-> "nil"]
    /\ retVal = [c \in Callers |-> "none"]
    /\ deadline = "none"
    /\ poolWaiter = "none"
    /\ swgWaiter = "none"
    /\ ran = [s \in Steps |-> 0]
    /\ timedOut = FALSE
    /\ failLog = <<>>
    /\ wpWorkers = 0
    /\ wpwg = 0
    /\ requestCh = <<>>
    /\ requestChClosed = FALSE
    /\ stopCh = FALSE
    /\ supPc = "none"
    /\ supI = 0
    /\ wPc = [w \in Workers |-> "unstarted"]
    /\ wItem = [w \in Workers |-> 0]
    /\ startCount = [r \in Requests |-> 0]
    /\ outcome = [r \in Requests |-> "none"]
    /\ cwPc = "none"
    /\ tickerLive = FALSE
    /\ hPc = [r \in Requests |-> "idle"]
    /\ hRes = [r \in Requests |-> "none"]
    /\ hLate = [r \in Requests |-> FALSE]
    /\ hDrain = [r \in Requests |-> FALSE]
    /\ hEarly = [r \in Requests |-> FALSE]
    /\ startRet = <<>>
    /\ panicked = FALSE
    /\ uConn = 0
    /\ uMade = 0
    /\ uLive = {}
    /\ uRet = "none"
    /\ mCount = 0
    /\ mShards = <<>>
    /\ mWriter = <<>>
    /\ mReaders = <<>>
    /\ mWaitW = <<>>
    /\ mPc = [p \in AllMapProcs |-> "idle"]
    /\ mOp = [p \in AllMapProcs |-> [op |-> "none", k |-> 0, v |-> 0, s |-> 0]]
    /\ mI = [p \in AllMapProcs |-> 0]
    /\ mOut = [p \in AllMapProcs |-> <<>>]
    /\ mGot = [p \in AllMapProcs |-> 0]
    /\ mRef = [k \in 0..MaxKey |-> 0]
    /\ mSnap = [p \in AllMapProcs |-> <<>>]
    /\ aState = "none"
    /\ aWillErr = [s \in {"profile", "order"} |-> FALSE]
    /\ fPc = [s \in {"profile", "order"} |-> "none"]
    /\ fRes = [s \in {"profile", "order"} |-> "none"]
    /\ gCtxErr = "none"
    /\ gErr = <<>>
    /\ aErrLog = <<>>
    /\ aResult = [s \in {"profile", "order"} |-> ""]
    /\ aRet = [result |-> <<>>, err |-> <<>>]

\* ---------------------------------------------------------------- Server.Start
\* dbConnection.connect: net.Pipe never fails, conn is set.
connect == dbConn' = "Open"

\* Server.Start: connect, launch the cache warmer, the pool supervisor and the
\* ListenAndServe goroutine, each counted in s.wg.
Start ==
    /\ ~started
    /\ startRet = <<>>
    /\ \A c \in Callers : sPc[c] = "idle"
    /\ connect
    /\ cwPc' = "select"
    /\ tickerLive' = TRUE
    /\ supPc' = "spawn"
    /\ ingressPc' = "spawned"
    /\ swg' = swg + 3
    /\ started' = TRUE
    /\ startRet' = Append(startRet, "nil")
    /\ UNCHANGED <<panicked, unitVars, mapVars, aggVars>>
    /\ UNCHANGED <<rootCancelled, shutdownCh, once, runner, inShutdown>>
    /\ UNCHANGED <<stopVars, handlerVars>>
    /\ UNCHANGED <<wpWorkers, wpwg, requestCh, requestChClosed, stopCh, supI, wPc, wItem, startCount, outcome>>

\* ---------------------------------------------------------------- Server.Stop
\* Stop is called on a started server; shutdownErr is the call's fresh local.
\* The callers are interchangeable, so they call in the order of their index.
StopCall(c) ==
    /\ started
    /\ sPc[c] = "idle"
    /\ \A d \in Callers : d < c => sPc[d] # "idle"
    /\ sPc' = [sPc EXCEPT ![c] = "once"]
    /\ shutdownErr' = [shutdownErr EXCEPT ![c] = "nil"]
    /\ UNCHANGED <<serverVars, poolVars, warmerVars, handlerVars>>
    /\ UNCHANGED <<retVal, deadline, poolWaiter, swgWaiter, ran, timedOut, failLog>>
    /\ UNCHANGED extVars

\* A guard that does not make later callers wait (a bare "already started" flag
\* instead of sync.Once): a caller arriving while f runs returns at once.
OnceDoNoWait(c) ==
    /\ sPc[c] = "once"
    /\ IF once = "idle"
         THEN /\ once' = "running"
              /\ runner' = c
              /\ sPc' = [sPc EXCEPT ![c] = "cancel"]
              /\ retVal' = retVal
         ELSE /\ once' = once
              /\ runner' = runner
              /\ sPc' = [sPc EXCEPT ![c] = "returned"]
              /\ retVal' = [retVal EXCEPT ![c] = shutdownErr[c]]
    /\ UNCHANGED <<started, rootCancelled, shutdownCh, swg, dbConn, inShutdown, ingressPc>>
    /\ UNCHANGED <<poolVars, warmerVars, handlerVars>>
    /\ UNCHANGED <<shutdownErr, deadline, poolWaiter, swgWaiter, ran, timedOut, failLog>>
    /\ UNCHANGED extVars

\* s.shutdownOnce.Do(f): the first caller runs f; a caller arriving while f
\* runs blocks until it has returned; a caller arriving later skips f, and
\* Stop returns its own shutdownErr.
OnceDo(c) ==
    /\ sPc[c] = "once"
    /\ once # "running"
    /\ IF once = "idle"
         THEN /\ once' = "running"
              /\ runner' = c
              /\ sPc' = [sPc EXCEPT ![c] = "cancel"]
              /\ retVal' = retVal
         ELSE /\ once' = once
              /\ runner' = runner
              /\ sPc' = [sPc EXCEPT ![c] = "returned"]
              /\ retVal' = [retVal EXCEPT ![c] = shutdownErr[c]]
    /\ UNCHANGED <<started, rootCancelled, shutdownCh, swg, dbConn, inShutdown, ingressPc>>
    /\ UNCHANGED <<poolVars, warmerVars, handlerVars>>
    /\ UNCHANGED <<shutdownErr, deadline, poolWaiter, swgWaiter, ran, timedOut, failLog>>
    /\ UNCHANGED extVars

\* Last error wins: the assignment without the "if shutdownErr == nil" test.
FirstErrOverwrite(c, e) == [shutdownErr EXCEPT ![c] = e]

\* First-error-wins assignment of the body: if shutdownErr == nil { shutdownErr = e }.
FirstErr(c, e) == [shutdownErr EXCEPT ![c] = IF @ = "nil" THEN e ELSE @]

Bump(step) == [ran EXCEPT ![step] = @ + 1]

\* s.rootCancel(), then shutdownCtx is derived from ctx with ShutdownTimeout.
StopCancel(c) ==
    /\ sPc[c] = "cancel"
    /\ rootCancelled' = TRUE
    /\ deadline' = IF deadline = "none" THEN "armed" ELSE deadline
    /\ ran' = Bump("cancel")
    /\ sPc' = [sPc EXCEPT ![c] = "shutdown"]
    /\ UNCHANGED <<started, shutdownCh, once, runner, swg, dbConn, inShutdown, ingressPc>>
    /\ UNCHANGED <<poolVars, warmerVars, handlerVars>>
    /\ UNCHANGED <<shutdownErr, retVal, poolWaiter, swgWaiter, timedOut, failLog>>
    /\ UNCHANGED extVars

\* The timer of shutdownCtx (or the deadline of the caller's ctx) fires.
DeadlineElapse ==
    /\ deadline = "armed"
    /\ deadline' = "elapsed"
    /\ UNCHANGED <<serverVars, poolVars, warmerVars, handlerVars>>
    /\ UNCHANGED <<sPc, shutdownErr, retVal, poolWaiter, swgWaiter, ran, timedOut, failLog>>
    /\ UNCHANGED extVars

\* s.httpServer.Shutdown(shutdownCtx), first half: inShutdown is set and the
\* listeners are closed, so no new connection is accepted.
StopHTTPShutdown(c) ==
    /\ sPc[c] = "shutdown"
    /\ ingressPc # "none"
    /\ inShutdown' = TRUE
    /\ ran' = Bump("ingress")
    /\ sPc' = [sPc EXCEPT ![c] = "shutdownWait"]
    /\ UNCHANGED <<started, rootCancelled, shutdownCh, once, runner, swg, dbConn, ingressPc>>
    /\ UNCHANGED <<poolVars, warmerVars, handlerVars>>
    /\ UNCHANGED <<shutdownErr, retVal, deadline, poolWaiter, swgWaiter, timedOut, failLog>>
    /\ UNCHANGED extVars

\* A connection is active from the moment its request is being read until
\* handleRequest has returned.
ActiveConns == {r \in Requests : hPc[r] \in {"active", "submit"}}

\* Shutdown, second half: it returns nil once no connection is active, or
\* ctx.Err() when shutdownCtx is done while one still is.
StopHTTPWait(c) ==
    /\ sPc[c] = "shutdownWait"
    /\ \/ /\ ActiveConns = {}
          /\ UNCHANGED <<shutdownErr, timedOut, failLog>>
       \/ /\ ActiveConns # {}
          /\ deadline = "elapsed"
          /\ shutdownErr' = [shutdownErr EXCEPT ![c] = "http"]
          /\ timedOut' = TRUE
          /\ failLog' = Append(failLog, "http")
    /\ sPc' = [sPc EXCEPT ![c] = "poolStop"]
    /\ UNCHANGED <<serverVars, poolVars, warmerVars, handlerVars>>
    /\ UNCHANGED <<retVal, deadline, poolWaiter, swgWaiter, ran>>
    /\ UNCHANGED extVars

\* workerPool.stop closing the request channel itself, next to stopCh.
StopPoolCloseQueue(c) ==
    /\ sPc[c] = "poolStop"
    /\ stopCh' = TRUE
    /\ requestChClosed' = TRUE
    /\ poolWaiter' = "waiting"
    /\ ran' = Bump("pool")
    /\ sPc' = [sPc EXCEPT ![c] = "poolWait"]
    /\ UNCHANGED <<serverVars, warmerVars, handlerVars>>
    /\ UNCHANGED <<wpWorkers, wpwg, requestCh, supPc, supI, wPc, wItem, startCount, outcome>>
    /\ UNCHANGED <<shutdownErr, retVal, deadline, swgWaiter, timedOut, failLog>>
    /\ UNCHANGED extVars

\* workerPool.stop, first half: close(wp.stopCh) and launch the goroutine that
\* waits for wp.wg.
StopPoolClose(c) ==
    /\ sPc[c] = "poolStop"
    /\ stopCh' = TRUE
    /\ poolWaiter' = "waiting"
    /\ ran' = Bump("pool")
    /\ sPc' = [sPc EXCEPT ![c] = "poolWait"]
    /\ UNCHANGED <<serverVars, warmerVars, handlerVars>>
    /\ UNCHANGED <<wpWorkers, wpwg, requestCh, requestChClosed, supPc, supI, wPc, wItem, startCount, outcome>>
    /\ UNCHANGED <<shutdownErr, retVal, deadline, swgWaiter, timedOut, failLog>>
    /\ UNCHANGED extVars

\* go func() { wp.wg.Wait(); close(done) }() of workerPool.stop.
PoolWaiterDone ==
    /\ poolWaiter = "waiting"
    /\ wpwg = 0
    /\ poolWaiter' = "closed"
    /\ UNCHANGED <<serverVars, poolVars, warmerVars, handlerVars>>
    /\ UNCHANGED <<sPc, shutdownErr, retVal, deadline, swgWaiter, ran, timedOut, failLog>>
    /\ UNCHANGED extVars

\* The timeout of workerPool.stop is logged but not stored in shutdownErr.
StopPoolWaitDropErr(c) ==
    /\ sPc[c] = "poolWait"
    /\ \/ /\ poolWaiter = "closed"
          /\ UNCHANGED <<shutdownErr, timedOut, failLog>>
       \/ /\ deadline = "elapsed"
          /\ shutdownErr' = shutdownErr
          /\ timedOut' = TRUE
          /\ failLog' = Append(failLog, "pool")
    /\ swgWaiter' = "waiting"
    /\ sPc' = [sPc EXCEPT ![c] = "wgWait"]
    /\ UNCHANGED <<serverVars, poolVars, warmerVars, handlerVars>>
    /\ UNCHANGED <<retVal, deadline, poolWaiter, ran>>
    /\ UNCHANGED extVars

\* workerPool.stop, second half: select on done and ctx.Done(); then Stop
\* launches the goroutine that waits for s.wg.
StopPoolWait(c) ==
    /\ sPc[c] = "poolWait"
    /\ \/ /\ poolWaiter = "closed"
          /\ UNCHANGED <<shutdownErr, timedOut, failLog>>
       \/ /\ deadline = "elapsed"
          /\ shutdownErr' = FirstErr(c, "pool")
          /\ timedOut' = TRUE
          /\ failLog' = Append(failLog, "pool")
    /\ swgWaiter' = "waiting"
    /\ sPc' = [sPc EXCEPT ![c] = "wgWait"]
    /\ UNCHANGED <<serverVars, poolVars, warmerVars, handlerVars>>
    /\ UNCHANGED <<retVal, deadline, poolWaiter, ran>>
    /\ UNCHANGED extVars

\* go func() { s.wg.Wait(); close(done) }() of Server.Stop.
SwgWaiterDone ==
    /\ swgWaiter = "waiting"
    /\ swg = 0
    /\ swgWaiter' = "closed"
    /\ UNCHANGED <<serverVars, poolVars, warmerVars, handlerVars>>
    /\ UNCHANGED <<sPc, shutdownErr, retVal, deadline, poolWaiter, ran, timedOut, failLog>>
    /\ UNCHANGED extVars

\* Step 3 as a bare <-done, without the shutdownCtx.Done() case.
StopWgWaitNoDeadline(c) ==
    /\ sPc[c] = "wgWait"
    /\ swgWaiter = "closed"
    /\ UNCHANGED <<shutdownErr, timedOut, failLog>>
    /\ ran' = Bump("wait")
    /\ sPc' = [sPc EXCEPT ![c] = "dbClose"]
    /\ UNCHANGED <<serverVars, poolVars, warmerVars, handlerVars>>
    /\ UNCHANGED <<retVal, deadline, poolWaiter, swgWaiter>>
    /\ UNCHANGED extVars

\* Step 3 with a select that has a default case: Stop does not wait for s.wg.
StopWgWaitNoWait(c) ==
    /\ sPc[c] = "wgWait"
    /\ UNCHANGED <<shutdownErr, timedOut, failLog>>
    /\ ran' = Bump("wait")
    /\ sPc' = [sPc EXCEPT ![c] = "dbClose"]
    /\ UNCHANGED <<serverVars, poolVars, warmerVars, handlerVars>>
    /\ UNCHANGED <<retVal, deadline, poolWaiter, swgWaiter>>
    /\ UNCHANGED extVars

\* Step 3 of Stop: select on done and shutdownCtx.Done().
StopWgWait(c) ==
    /\ sPc[c] = "wgWait"
    /\ \/ /\ swgWaiter = "closed"
          /\ UNCHANGED <<shutdownErr, timedOut, failLog>>
       \/ /\ deadline = "elapsed"
          /\ shutdownErr' = FirstErr(c, "wait")
          /\ timedOut' = TRUE
          /\ failLog' = Append(failLog, "wait")
    /\ ran' = Bump("wait")
    /\ sPc' = [sPc EXCEPT ![c] = "dbClose"]
    /\ UNCHANGED <<serverVars, poolVars, warmerVars, handlerVars>>
    /\ UNCHANGED <<retVal, deadline, poolWaiter, swgWaiter>>
    /\ UNCHANGED extVars

\* dbConnection.close: if conn != nil, conn.Close() and conn = nil.  The conn
\* is one end of net.Pipe, whose Close always returns nil.
close == dbConn' = IF dbConn = "Open" THEN "Closed" ELSE dbConn

\* Step 4 run only when the earlier steps succeeded.
StopDbCloseOnSuccess(c) ==
    /\ sPc[c] = "dbClose"
    /\ IF shutdownErr[c] = "nil" THEN close ELSE dbConn' = dbConn
    /\ ran' = Bump("close")
    /\ sPc' = [sPc EXCEPT ![c] = "closeCh"]
    /\ UNCHANGED <<started, rootCancelled, shutdownCh, once, runner, swg, inShutdown, ingressPc>>
    /\ UNCHANGED <<poolVars, warmerVars, handlerVars>>
    /\ UNCHANGED <<shutdownErr, retVal, deadline, poolWaiter, swgWaiter, timedOut, failLog>>
    /\ UNCHANGED extVars

\* Step 4 of Stop: s.dbConn.close().
StopDbClose(c) ==
    /\ sPc[c] = "dbClose"
    /\ close
    /\ ran' = Bump("close")
    /\ sPc' = [sPc EXCEPT ![c] = "closeCh"]
    /\ UNCHANGED <<started, rootCancelled, shutdownCh, once, runner, swg, inShutdown, ingressPc>>
    /\ UNCHANGED <<poolVars, warmerVars, handlerVars>>
    /\ UNCHANGED <<shutdownErr, retVal, deadline, poolWaiter, swgWaiter, timedOut, failLog>>
    /\ UNCHANGED extVars

\* close(s.shutdownCh); the function given to Once.Do returns, which marks
\* the Once done and releases the callers blocked on it; Stop returns
\* shutdownErr.
StopMark(c) ==
    /\ sPc[c] = "closeCh"
    /\ shutdownCh' = TRUE
    /\ once' = "done"
    /\ ran' = Bump("mark")
    /\ retVal' = [retVal EXCEPT ![c] = shutdownErr[c]]
    /\ sPc' = [sPc EXCEPT ![c] = "returned"]
    /\ UNCHANGED <<started, runner, rootCancelled, swg, dbConn, inShutdown, ingressPc>>
    /\ UNCHANGED <<poolVars, warmerVars, handlerVars>>
    /\ UNCHANGED <<shutdownErr, deadline, poolWaiter, swgWaiter, timedOut, failLog>>
    /\ UNCHANGED extVars

\* ---------------------------------------------------------------- ingress
\* The goroutine of Start running s.httpServer.ListenAndServe(): it serves
\* until Shutdown is called and then returns http.ErrServerClosed (at once, if
\* Shutdown came first); defer s.wg.Done().
IngressListen ==
    /\ ingressPc = "spawned"
    /\ IF inShutdown
         THEN /\ ingressPc' = "exited"
              /\ swg' = swg - 1
         ELSE /\ ingressPc' = "serving"
              /\ swg' = swg
    /\ UNCHANGED <<started, rootCancelled, shutdownCh, once, runner, dbConn, inShutdown>>
    /\ UNCHANGED <<stopVars, poolVars, warmerVars, handlerVars>>
    /\ UNCHANGED extVars

IngressExit ==
    /\ ingressPc = "serving"
    /\ inShutdown
    /\ ingressPc' = "exited"
    /\ swg' = swg - 1
    /\ UNCHANGED <<started, rootCancelled, shutdownCh, once, runner, dbConn, inShutdown>>
    /\ UNCHANGED <<stopVars, poolVars, warmerVars, handlerVars>>
    /\ UNCHANGED extVars

\* A client connection is accepted and its request is being read: possible
\* only while the listener is open.  The requests are interchangeable, so
\* they arrive in the order of their index.
Arrive(r) ==
    /\ hPc[r] = "idle"
    /\ \A q \in Requests : q < r => hPc[q] # "idle"
    /\ ingressPc = "serving"
    /\ ~inShutdown
    /\ hPc' = [hPc EXCEPT ![r] = "active"]
    /\ UNCHANGED <<serverVars, stopVars, poolVars, warmerVars>>
    /\ UNCHANGED <<hRes, hLate, hDrain, hEarly>>
    /\ UNCHANGED extVars

\* Drain has begun for the pool: the root signal is cancelled or stopCh closed.
DrainBegun == rootCancelled \/ stopCh

\* Server.handleRequest up to the call of submit: the non-blocking check of
\* shutdownCh, then workerPool.submit(s.rootCtx, req) is entered.
handleRequest(r) ==
    /\ hPc[r] = "active"
    /\ IF shutdownCh
         THEN /\ hPc' = [hPc EXCEPT ![r] = "done"]
              /\ hRes' = [hRes EXCEPT ![r] = "unavailable"]
              /\ UNCHANGED <<hLate, hDrain>>
         ELSE /\ hPc' = [hPc EXCEPT ![r] = "submit"]
              /\ hRes' = hRes
              /\ hLate' = [hLate EXCEPT ![r] = inShutdown]
              /\ hDrain' = [hDrain EXCEPT ![r] = DrainBegun \/ requestChClosed]
    /\ UNCHANGED <<serverVars, stopVars, poolVars, warmerVars>>
    /\ UNCHANGED hEarly
    /\ UNCHANGED extVars

\* workerPool.submit, case <-ctx.Done(): return ctx.Err(); handleRequest
\* answers 503.
submitCtxDone(r) ==
    /\ hPc[r] = "submit"
    /\ rootCancelled
    /\ hPc' = [hPc EXCEPT ![r] = "done"]
    /\ hRes' = [hRes EXCEPT ![r] = "unavailable"]
    /\ hLate' = [hLate EXCEPT ![r] = FALSE]
    /\ hDrain' = [hDrain EXCEPT ![r] = FALSE]
    /\ UNCHANGED <<serverVars, stopVars, poolVars, warmerVars>>
    /\ UNCHANGED hEarly
    /\ UNCHANGED extVars

\* workerPool.submit, case <-wp.stopCh: "worker pool is shutting down".
submitStopCh(r) ==
    /\ hPc[r] = "submit"
    /\ stopCh
    /\ hPc' = [hPc EXCEPT ![r] = "done"]
    /\ hRes' = [hRes EXCEPT ![r] = "unavailable"]
    /\ hLate' = [hLate EXCEPT ![r] = FALSE]
    /\ hDrain' = [hDrain EXCEPT ![r] = FALSE]
    /\ UNCHANGED <<serverVars, stopVars, poolVars, warmerVars>>
    /\ UNCHANGED hEarly
    /\ UNCHANGED extVars

\* workerPool.submit, case wp.requestCh <- req: ready when the buffer has room;
\* submit returns nil and handleRequest returns.
submitSend(r) ==
    /\ hPc[r] = "submit"
    /\ ~requestChClosed
    /\ Len(requestCh) < QueueCap
    /\ requestCh' = Append(requestCh, r)
    /\ hPc' = [hPc EXCEPT ![r] = "done"]
    /\ hRes' = [hRes EXCEPT ![r] = "enqueued"]
    /\ hEarly' = [hEarly EXCEPT ![r] = ~DrainBegun]
    /\ UNCHANGED <<serverVars, stopVars, warmerVars>>
    /\ UNCHANGED <<wpWorkers, wpwg, requestChClosed, stopCh, supPc, supI, wPc, wItem, startCount, outcome>>
    /\ UNCHANGED <<hLate, hDrain>>
    /\ UNCHANGED extVars

\* workerPool.submit, case wp.requestCh <- req chosen on a closed channel: the
\* send panics; net/http recovers the panic of a handler and drops the
\* connection.
submitSendClosed(r) ==
    /\ hPc[r] = "submit"
    /\ requestChClosed
    /\ hPc' = [hPc EXCEPT ![r] = "done"]
    /\ hRes' = [hRes EXCEPT ![r] = "panic"]
    /\ UNCHANGED <<serverVars, stopVars, poolVars, warmerVars>>
    /\ UNCHANGED <<hLate, hDrain, hEarly>>
    /\ UNCHANGED extVars

\* ---------------------------------------------------------------- workerPool
\* The launch loop with the test i <= wp.size: one worker too many.
startSpawnOneMore ==
    /\ supPc = "spawn"
    /\ supI <= PoolSize
    /\ wpWorkers' = wpWorkers + 1
    /\ wpwg' = wpwg + 1
    /\ wPc' = IF supI < PoolSize THEN [wPc EXCEPT ![supI + 1] = "select"] ELSE wPc
    /\ supI' = supI + 1
    /\ UNCHANGED <<serverVars, stopVars, warmerVars, handlerVars>>
    /\ UNCHANGED <<requestCh, requestChClosed, stopCh, supPc, wItem, startCount, outcome>>
    /\ UNCHANGED extVars

\* workerPool.start, one iteration of the launch loop: wp.workers++,
\* wp.wg.Add(1), go wp.worker(ctx, i).
startSpawn ==
    /\ supPc = "spawn"
    /\ supI < PoolSize
    /\ wpWorkers' = wpWorkers + 1
    /\ wpwg' = wpwg + 1
    /\ wPc' = [wPc EXCEPT ![supI + 1] = "select"]
    /\ supI' = supI + 1
    /\ UNCHANGED <<serverVars, stopVars, warmerVars, handlerVars>>
    /\ UNCHANGED <<requestCh, requestChClosed, stopCh, supPc, wItem, startCount, outcome>>
    /\ UNCHANGED extVars

\* workerPool.start: the launch loop is over; select { case <-ctx.Done():
\* case <-wp.stopCh: }.
startSelect ==
    /\ supPc = "spawn"
    /\ supI = PoolSize
    /\ DrainBegun
    /\ supPc' = "close"
    /\ UNCHANGED <<serverVars, stopVars, warmerVars, handlerVars>>
    /\ UNCHANGED <<wpWorkers, wpwg, requestCh, requestChClosed, stopCh, supI, wPc, wItem, startCount, outcome>>
    /\ UNCHANGED extVars

\* workerPool.start: close(wp.requestCh).
startClose ==
    /\ supPc = "close"
    /\ requestChClosed' = TRUE
    /\ supPc' = "wait"
    /\ UNCHANGED <<serverVars, stopVars, warmerVars, handlerVars>>
    /\ UNCHANGED <<wpWorkers, wpwg, requestCh, stopCh, supI, wPc, wItem, startCount, outcome>>
    /\ UNCHANGED extVars

\* workerPool.start returning after close(wp.requestCh) without wp.wg.Wait().
startWaitNoWait ==
    /\ supPc = "wait"
    /\ supPc' = "exited"
    /\ swg' = swg - 1
    /\ UNCHANGED <<started, rootCancelled, shutdownCh, once, runner, dbConn, inShutdown, ingressPc>>
    /\ UNCHANGED <<stopVars, warmerVars, handlerVars>>
    /\ UNCHANGED <<wpWorkers, wpwg, requestCh, requestChClosed, stopCh, supI, wPc, wItem, startCount, outcome>>
    /\ UNCHANGED extVars

\* workerPool.start: wp.wg.Wait() returns, then the deferred wg.Done().
startWait ==
    /\ supPc = "wait"
    /\ wpwg = 0
    /\ supPc' = "exited"
    /\ swg' = swg - 1
    /\ UNCHANGED <<started, rootCancelled, shutdownCh, once, runner, dbConn, inShutdown, ingressPc>>
    /\ UNCHANGED <<stopVars, warmerVars, handlerVars>>
    /\ UNCHANGED <<wpWorkers, wpwg, requestCh, requestChClosed, stopCh, supI, wPc, wItem, startCount, outcome>>
    /\ UNCHANGED extVars

\* workerPool.worker, case <-ctx.Done(): return (defer wp.wg.Done()).
workerCtxDone(w) ==
    /\ wPc[w] = "select"
    /\ rootCancelled
    /\ wPc' = [wPc EXCEPT ![w] = "exited"]
    /\ wpwg' = wpwg - 1
    /\ UNCHANGED <<serverVars, stopVars, warmerVars, handlerVars>>
    /\ UNCHANGED <<wpWorkers, requestCh, requestChClosed, stopCh, supPc, supI, wItem, startCount, outcome>>
    /\ UNCHANGED extVars

\* workerPool.worker, case req, ok := <-wp.requestCh with ok: processRequest
\* is entered for the head of the queue.
workerRecv(w) ==
    /\ wPc[w] = "select"
    /\ requestCh # <<>>
    /\ wItem' = [wItem EXCEPT ![w] = Head(requestCh)]
    /\ startCount' = [startCount EXCEPT ![Head(requestCh)] = @ + 1]
    /\ requestCh' = Tail(requestCh)
    /\ wPc' = [wPc EXCEPT ![w] = "processing"]
    /\ UNCHANGED <<serverVars, stopVars, warmerVars, handlerVars>>
    /\ UNCHANGED <<wpWorkers, wpwg, requestChClosed, stopCh, supPc, supI, outcome>>
    /\ UNCHANGED extVars

\* workerPool.worker, case req, ok := <-wp.requestCh with !ok: the channel is
\* closed and empty; return.
workerRecvClosed(w) ==
    /\ wPc[w] = "select"
    /\ requestCh = <<>>
    /\ requestChClosed
    /\ wPc' = [wPc EXCEPT ![w] = "exited"]
    /\ wpwg' = wpwg - 1
    /\ UNCHANGED <<serverVars, stopVars, warmerVars, handlerVars>>
    /\ UNCHANGED <<wpWorkers, requestCh, requestChClosed, stopCh, supPc, supI, wItem, startCount, outcome>>
    /\ UNCHANGED extVars

\* workerPool.processRequest: select on time.After(100ms) (the response is
\* written) and ctx.Done() ("Request cancelled"); then back to the loop.
processRequest(w) ==
    /\ wPc[w] = "processing"
    /\ \/ outcome' = [outcome EXCEPT ![wItem[w]] = "completed"]
       \/ /\ rootCancelled
          /\ outcome' = [outcome EXCEPT ![wItem[w]] = "cancelled"]
    /\ wItem' = [wItem EXCEPT ![w] = 0]
    /\ wPc' = [wPc EXCEPT ![w] = "select"]
    /\ UNCHANGED <<serverVars, stopVars, warmerVars, handlerVars>>
    /\ UNCHANGED <<wpWorkers, wpwg, requestCh, requestChClosed, stopCh, supPc, supI, startCount>>
    /\ UNCHANGED extVars

\* ---------------------------------------------------------------- cacheWarmer
\* A cache warmer whose loop has no ctx.Done() case: it never returns.
cwCtxDoneNever ==
    /\ FALSE
    /\ UNCHANGED vars

\* A cache warmer without the deferred ticker.Stop(): it returns with a live
\* ticker.
cwCtxDoneLeak ==
    /\ cwPc = "select"
    /\ rootCancelled
    /\ cwPc' = "exited"
    /\ swg' = swg - 1
    /\ UNCHANGED <<started, rootCancelled, shutdownCh, once, runner, dbConn, inShutdown, ingressPc>>
    /\ UNCHANGED <<stopVars, poolVars, handlerVars>>
    /\ UNCHANGED tickerLive
    /\ UNCHANGED extVars

\* cacheWarmer.start, case <-cw.ctx.Done(): return; the deferred ticker.Stop()
\* and wg.Done() run.
cwCtxDone ==
    /\ cwPc = "select"
    /\ rootCancelled
    /\ cwPc' = "exited"
    /\ tickerLive' = FALSE
    /\ swg' = swg - 1
    /\ UNCHANGED <<started, rootCancelled, shutdownCh, once, runner, dbConn, inShutdown, ingressPc>>
    /\ UNCHANGED <<stopVars, poolVars, handlerVars>>
    /\ UNCHANGED extVars

\* cacheWarmer.start, case <-cw.ticker.C: warmCache() is entered.
cwTick ==
    /\ cwPc = "select"
    /\ tickerLive
    /\ cwPc' = "warming"
    /\ UNCHANGED <<serverVars, stopVars, poolVars, handlerVars>>
    /\ UNCHANGED tickerLive
    /\ UNCHANGED extVars

\* cacheWarmer.warmCache returns after its sleep.
warmCache ==
    /\ cwPc = "warming"
    /\ cwPc' = "select"
    /\ UNCHANGED <<serverVars, stopVars, poolVars, handlerVars>>
    /\ UNCHANGED tickerLive
    /\ UNCHANGED extVars

\* ---------------------------------------------------------------- system
Next ==
    \/ Start
    \/ \E c \in Callers : StopCall(c)
    \/ \E c \in Callers : OnceDo(c)
    \/ \E c \in Callers : StopCancel(c)
    \/ DeadlineElapse
    \/ \E c \in Callers : StopHTTPShutdown(c)
    \/ \E c \in Callers : StopHTTPWait(c)
    \/ \E c \in Callers : StopPoolClose(c)
    \/ PoolWaiterDone
    \/ \E c \in Callers : StopPoolWait(c)
    \/ SwgWaiterDone
    \/ \E c \in Callers : StopWgWait(c)
    \/ \E c \in Callers : StopDbClose(c)
    \/ \E c \in Callers : StopMark(c)
    \/ IngressListen
    \/ IngressExit
    \/ \E r \in Requests : Arrive(r)
    \/ \E r \in Requests : handleRequest(r)
    \/ \E r \in Requests : submitCtxDone(r)
    \/ \E r \in Requests : submitStopCh(r)
    \/ \E r \in Requests : submitSend(r)
    \/ \E r \in Requests : submitSendClosed(r)
    \/ startSpawn
    \/ startSelect
    \/ startClose
    \/ startWait
    \/ \E w \in Workers : workerCtxDone(w)
    \/ \E w \in Workers : workerRecv(w)
    \/ \E w \in Workers : workerRecvClosed(w)
    \/ \E w \in Workers : processRequest(w)
    \/ cwCtxDone
    \/ cwTick
    \/ warmCache

Spec == Init /\ [][Next]_vars

\* The Go scheduler runs every runnable goroutine, so each step of a Stop call
\* that stays enabled is taken, and the timer of shutdownCtx fires.  Workers,
\* handlers and the cache warmer get no fairness: they may take arbitrarily
\* long.
StopStep(c) ==
    \/ OnceDo(c)
    \/ StopCancel(c)
    \/ StopHTTPShutdown(c)
    \/ StopHTTPWait(c)
    \/ StopPoolClose(c)
    \/ StopPoolWait(c)
    \/ StopWgWait(c)
    \/ StopDbClose(c)
    \/ StopMark(c)

FairSpec ==
    /\ Spec
    /\ \A c \in Callers : WF_vars(StopStep(c))
    /\ WF_vars(DeadlineElapse)

\* ---------------------------------------------------------------- properties
\* A worker goroutine, the pool supervisor, the cache warmer or a submit is
\* still running.
TaskOutstanding ==
    \/ \E w \in Workers : wPc[w] \in {"select", "processing"}
    \/ supPc \in {"spawn", "close", "wait"}
    \/ cwPc \in {"select", "warming"}
    \/ \E r \in Requests : hPc[r] = "submit"

\* C1: the shutdown phases are strictly ordered: the ingress is stopped
\* (Shutdown called) before the root signal is cancelled, and the root signal
\* is cancelled before the resource handle is closed.
C1_StrictPhaseOrder ==
    /\ rootCancelled => inShutdown
    /\ dbConn = "Closed" => rootCancelled

\* C2: however many callers, every step of the shutdown protocol runs at most
\* once, and a caller has returned only after the single execution has
\* completed with every step run exactly once.
C2_ProtocolOnce ==
    /\ \A st \in Steps : ran[st] <= 1
    /\ \A c \in Callers :
         sPc[c] = "returned" => once = "done" /\ \A st \in Steps : ran[st] = 1

C2_Witness ==
    /\ \A c \in Callers : sPc[c] = "returned"
    /\ \E c \in Callers : c # runner
    /\ ran["mark"] = 1

\* C3: every Stop call that has returned returned the aggregate error of the
\* single protocol execution.
C3_SameResult ==
    \A c \in Callers :
        runner \in Callers /\ sPc[c] = "returned" /\ sPc[runner] = "returned"
            => retVal[c] = retVal[runner]

\* C4: no item accepted before drain began is dropped: when the deadline has
\* not elapsed and every worker has exited, each such item was handed to
\* processRequest exactly once; and no item is ever handed out twice.
C4_NoAcceptedItemDropped ==
    /\ \A r \in Requests : startCount[r] <= 1
    /\ (deadline # "elapsed" /\ \A w \in Workers : wPc[w] = "exited")
         => \A r \in Requests : hEarly[r] => startCount[r] = 1

\* C5: a request whose handleRequest was entered after Stop called Shutdown
\* is never placed on the queue.
C5_LateRequestRejected ==
    \A r \in Requests : hLate[r] => hRes[r] # "enqueued"

\* C6: a submit entered after drain has begun, or after the queue was closed,
\* returns an error and never enqueues (nor panics).
C6_SubmitAfterDrainFails ==
    \A r \in Requests : hDrain[r] => hRes[r] \notin {"enqueued", "panic"}

\* C7: every call of Stop on a started server eventually returns.
C7_StopTerminates ==
    \A c \in Callers : (sPc[c] = "once") ~> (sPc[c] = "returned")

C7_Witness ==
    /\ runner \in Callers
    /\ sPc[runner] = "returned"
    /\ timedOut
    /\ \E w \in Workers : wPc[w] = "processing"
    /\ cwPc = "warming"

\* C8: once the shutdown protocol has completed, the resource handle is
\* closed, whatever the waits returned.
C8_ResourceClosedOnCompletion ==
    once = "done" => dbConn = "Closed"

C8_Witness ==
    /\ once = "done"
    /\ timedOut
    /\ shutdownErr[runner] = "pool"
    /\ dbConn = "Closed"

\* C9: for the call that runs the protocol: if a wait took its deadline branch
\* the later steps still ran (wait for tasks, resource close, mark stopped)
\* and the call returns a non-nil error; it returns nil only if no wait timed
\* out.
C9_TimeoutReported ==
    /\ once = "done" /\ timedOut =>
         /\ ran["wait"] = 1 /\ ran["close"] = 1 /\ dbConn = "Closed"
         /\ shutdownErr[runner] # "nil"
    /\ runner \in Callers /\ sPc[runner] = "returned" =>
         (retVal[runner] = "nil" => ~timedOut)

C9_Witness ==
    /\ runner \in Callers
    /\ sPc[runner] = "returned"
    /\ retVal[runner] = "wait"
    /\ timedOut

\* C10 (as claimed): once shutdownCh is closed nothing is outstanding, also
\* after a timed-out wait.
C10_NothingOutstandingWhenStopped ==
    shutdownCh => ~TaskOutstanding

\* C10 (amended): once shutdownCh is closed by a protocol execution in which
\* no wait timed out, no worker, supervisor, periodic task or queue write is
\* outstanding.
C10_NothingOutstandingAfterCleanStop ==
    shutdownCh /\ ~timedOut => ~TaskOutstanding

C10_Witness ==
    /\ shutdownCh
    /\ ~timedOut
    /\ \A w \in Workers : wPc[w] = "exited"
    /\ supPc = "exited"
    /\ cwPc = "exited"
    /\ \E r \in Requests : startCount[r] = 1

\* ---------------------------------------------------------------- tasks
\* Every goroutine launched by Start has returned.
AllTasksTerminated ==
    /\ \A w \in Workers : wPc[w] = "exited"
    /\ supPc = "exited"
    /\ cwPc = "exited"
    /\ ingressPc = "exited"

workerStep(w) ==
    \/ workerCtxDone(w)
    \/ workerRecv(w)
    \/ workerRecvClosed(w)
    \/ processRequest(w)

startStep ==
    \/ startSpawn
    \/ startSelect
    \/ startClose
    \/ startWait

\* Fairness of the goroutines launched by Start, on top of FairSpec: every
\* runnable goroutine is scheduled; processRequest and warmCache end after
\* their 100ms; the warmer's select takes ctx.Done() sooner or later (ticks
\* are 30s apart, so after a cancellation a select finds only ctx.Done()
\* ready).
TaskFairSpec ==
    /\ FairSpec
    /\ \A w \in Workers : WF_vars(workerStep(w))
    /\ WF_vars(startStep)
    /\ SF_vars(cwCtxDone)
    /\ WF_vars(warmCache)
    /\ WF_vars(IngressListen)
    /\ WF_vars(IngressExit)

C12_TasksTerminate ==
    (\E c \in Callers : sPc[c] = "once") ~> AllTasksTerminated

C12_Witness ==
    /\ once = "done"
    /\ failLog = <<"pool", "wait">>
    /\ AllTasksTerminated
    /\ \E r \in Requests : startCount[r] = 1

\* C16: when workerPool.stop has returned nil (Stop is past it with no error
\* so far), every worker of the pool has exited.
C16_PoolStopNilMeansWorkersExited ==
    \A c \in Callers :
        sPc[c] = "wgWait" /\ failLog = <<>> => \A w \in Workers : wPc[w] = "exited"

\* C20: the aggregate error of the protocol is the error of the first step
\* that failed, at every point of the protocol, and once the protocol has
\* completed every step has run although an earlier one failed.
C20_FirstErrorWins ==
    /\ runner \in Callers =>
         shutdownErr[runner] = (IF failLog = <<>> THEN "nil" ELSE Head(failLog))
    /\ once = "done" => \A st \in Steps : ran[st] = 1

C20_Witness ==
    /\ once = "done"
    /\ failLog = <<"http", "pool", "wait">>
    /\ retVal[runner] = "http"
    /\ dbConn = "Closed"

\* ---------------------------------------------------------------- lifecycle
\* Calls of Start one server object receives.
MaxStartCalls == 2

\* Start launching the cache warmer before it connects: the failed connect
\* leaves the warmer running.
StartLaunchBeforeConnect ==
    /\ ~started
    /\ startRet = <<>>
    /\ ~panicked
    /\ \A c \in Callers : sPc[c] = "idle"
    /\ startRet' = Append(startRet, "error")
    /\ cwPc' = "select"
    /\ tickerLive' = TRUE
    /\ swg' = swg + 1
    /\ UNCHANGED <<started, rootCancelled, shutdownCh, once, runner, dbConn, inShutdown, ingressPc>>
    /\ UNCHANGED <<stopVars, poolVars, handlerVars, panicked, unitVars, mapVars, aggVars>>

\* Server.Start when s.dbConn.connect() returns an error: Start returns the
\* wrapped error before anything is created.  s.dbConn is a handle that was
\* never connected.
StartConnectFail ==
    /\ ~started
    /\ startRet = <<>>
    /\ ~panicked
    /\ \A c \in Callers : sPc[c] = "idle"
    /\ startRet' = Append(startRet, "error")
    /\ UNCHANGED <<serverVars, stopVars, poolVars, warmerVars, handlerVars, panicked, unitVars, mapVars, aggVars>>

\* Stop is called on a server whose Start has not succeeded.
StopCallUnstarted(c) ==
    /\ ~started
    /\ ~panicked
    /\ sPc[c] = "idle"
    /\ \A d \in Callers : d < c => sPc[d] # "idle"
    /\ sPc' = [sPc EXCEPT ![c] = "once"]
    /\ shutdownErr' = [shutdownErr EXCEPT ![c] = "nil"]
    /\ UNCHANGED <<serverVars, poolVars, warmerVars, handlerVars, extVars>>
    /\ UNCHANGED <<retVal, deadline, poolWaiter, swgWaiter, ran, timedOut, failLog>>

\* s.httpServer.Shutdown(shutdownCtx) with s.httpServer == nil: Shutdown
\* stores to a field of its nil receiver, the goroutine panics inside Once.Do
\* and, nothing recovering it, the process dies.
StopHTTPShutdownNil(c) ==
    /\ sPc[c] = "shutdown"
    /\ ingressPc = "none"
    /\ panicked' = TRUE
    /\ sPc' = [sPc EXCEPT ![c] = "panicked"]
    /\ UNCHANGED <<serverVars, poolVars, warmerVars, handlerVars, startRet, unitVars, mapVars, aggVars>>
    /\ UNCHANGED <<shutdownErr, retVal, deadline, poolWaiter, swgWaiter, ran, timedOut, failLog>>

\* A restart that makes a new root context: the root signal is live again on
\* a server whose shutdownCh is closed.
StartAgainNewRoot ==
    /\ started
    /\ ~panicked
    /\ Len(startRet) < MaxStartCalls
    /\ once = "done"
    /\ ~timedOut
    /\ AllTasksTerminated
    /\ ActiveConns = {}
    /\ connect
    /\ rootCancelled' = FALSE
    /\ cwPc' = "select"
    /\ tickerLive' = TRUE
    /\ wpWorkers' = 0
    /\ wpwg' = 0
    /\ requestCh' = <<>>
    /\ requestChClosed' = FALSE
    /\ stopCh' = FALSE
    /\ supPc' = "spawn"
    /\ supI' = 0
    /\ wPc' = [w \in Workers |-> "unstarted"]
    /\ wItem' = [w \in Workers |-> 0]
    /\ inShutdown' = FALSE
    /\ ingressPc' = "spawned"
    /\ swg' = swg + 3
    /\ startRet' = Append(startRet, "nil")
    /\ UNCHANGED <<started, shutdownCh, once, runner, startCount, outcome>>
    /\ UNCHANGED <<stopVars, handlerVars, panicked, unitVars, mapVars, aggVars>>

\* Server.Start called again, here after a Stop that completed without a
\* timeout (every goroutine of the first Start has returned, so the objects
\* it replaces are dead): nothing in Start tests whether the server was
\* started.  It connects a new handle, creates a new cache warmer, worker pool
\* and http.Server, launches their goroutines and returns nil.  rootCtx and
\* shutdownOnce are those of NewServer.
StartAgain ==
    /\ started
    /\ ~panicked
    /\ Len(startRet) < MaxStartCalls
    /\ once = "done"
    /\ ~timedOut
    /\ AllTasksTerminated
    /\ ActiveConns = {}
    /\ connect
    /\ cwPc' = "select"
    /\ tickerLive' = TRUE
    /\ wpWorkers' = 0
    /\ wpwg' = 0
    /\ requestCh' = <<>>
    /\ requestChClosed' = FALSE
    /\ stopCh' = FALSE
    /\ supPc' = "spawn"
    /\ supI' = 0
    /\ wPc' = [w \in Workers |-> "unstarted"]
    /\ wItem' = [w \in Workers |-> 0]
    /\ inShutdown' = FALSE
    /\ ingressPc' = "spawned"
    /\ swg' = swg + 3
    /\ startRet' = Append(startRet, "nil")
    /\ UNCHANGED <<started, rootCancelled, shutdownCh, once, runner, startCount, outcome>>
    /\ UNCHANGED <<stopVars, handlerVars, panicked, unitVars, mapVars, aggVars>>

\* The server with the calls the first specification leaves out: a connect
\* that fails, Stop on a server that was not started, Start after Stop.
LifecycleNext ==
    \/ Next
    \/ StartConnectFail
    \/ \E c \in Callers : StopCallUnstarted(c)
    \/ \E c \in Callers : StopHTTPShutdownNil(c)
    \/ StartAgain

LifecycleSpec == Init /\ [][LifecycleNext]_vars

\* C13: when Start has returned the connect error, no worker, supervisor,
\* cache warmer or ingress goroutine exists, s.wg counts nothing and the
\* server is not started.
C13_FailedStartStartsNothing ==
    startRet = <<"error">> =>
        /\ ~started
        /\ \A w \in Workers : wPc[w] = "unstarted"
        /\ supPc = "none"
        /\ cwPc = "none"
        /\ ~tickerLive
        /\ ingressPc = "none"
        /\ swg = 0

C13_Witness ==
    /\ startRet = <<"error">>
    /\ rootCancelled
    /\ cwPc = "none"

\* C14: after a Start that failed on connect, Stop completes without a fault
\* and every call of it that returned has returned nil.
C14_StopSafeAfterFailedStart ==
    startRet = <<"error">> =>
        /\ ~panicked
        /\ \A c \in Callers : sPc[c] = "returned" => retVal[c] = "nil"

\* C15: the second call of Start on a server returns an error.
C15_SecondStartRejected ==
    Len(startRet) >= 2 => startRet[2] = "error"

\* ---------------------------------------------------------------- dbConnection
\* Connections one dbConnection creates during a run of the unit.
MaxConns == 6

\* dbConnection.connect called on the handle: a new pipe end is stored in
\* db.conn whatever db.conn held, and nil is returned.
dbConnect ==
    /\ uMade < MaxConns
    /\ connect
    /\ uMade' = uMade + 1
    /\ uConn' = uMade + 1
    /\ uLive' = uLive \cup {uMade + 1}
    /\ uRet' = "nil"
    /\ UNCHANGED <<started, rootCancelled, shutdownCh, once, runner, swg, inShutdown, ingressPc>>
    /\ UNCHANGED <<stopVars, poolVars, warmerVars, handlerVars, lifeVars, mapVars, aggVars>>

\* dbConnection.close called on the handle, conn.Close() succeeding.
dbClose ==
    /\ close
    /\ uConn' = 0
    /\ uLive' = uLive \ {uConn}
    /\ uRet' = "nil"
    /\ UNCHANGED <<started, rootCancelled, shutdownCh, once, runner, swg, inShutdown, ingressPc>>
    /\ UNCHANGED <<stopVars, poolVars, warmerVars, handlerVars, lifeVars, mapVars, aggVars, uMade>>

\* dbConnection.close when db.conn.Close() returns an error: close returns
\* the wrapped error before db.conn = nil.
dbCloseFails ==
    /\ dbConn = "Open"
    /\ uRet' = "error"
    /\ UNCHANGED <<serverVars, stopVars, poolVars, warmerVars, handlerVars, lifeVars, mapVars, aggVars>>
    /\ UNCHANGED <<uConn, uMade, uLive>>

\* The dbConnection alone, its two methods called in any order.
HandleNext ==
    \/ dbConnect
    \/ dbClose
    \/ dbCloseFails

HandleSpec == Init /\ [][HandleNext]_vars

\* C17: a call of close on an open handle leaves it Closed, also when the
\* underlying Close fails and close returns an error.
C17_CloseAlwaysCloses ==
    [][(dbConn = "Open" /\ (dbClose \/ dbCloseFails)) => dbConn' = "Closed"]_vars

\* C18: close on a handle that is Unopened or Closed returns nil and changes
\* nothing, and the state of the handle only moves Unopened to Open and Open
\* to Closed.
C18_CloseNoOpAndTransitions ==
    [][/\ (dbConn # "Open" /\ dbClose) => (dbConn' = dbConn /\ uRet' = "nil" /\ uLive' = uLive)
       /\ dbConn' # dbConn => <<dbConn, dbConn'>> \in {<<"Unopened", "Open">>, <<"Open", "Closed">>}]_vars

\* C19: connect on an open handle keeps the connection the handle holds and
\* creates no other.
C19_OpenIdempotent ==
    [][(dbConn = "Open" /\ dbConnect) => (uConn' = uConn /\ uMade' = uMade)]_vars

\* ---------------------------------------------------------------- workers
\* C25: no item taken from the queue is cut short by the cancellation of the
\* root signal: processRequest never ends an item as cancelled.
C25_TakenItemCompleted ==
    \A r \in Requests : startCount[r] >= 1 => outcome[r] # "cancelled"

\* C26: a worker exits only after drain has begun and only when the queue
\* holds no item.
C26_WorkerExitsOnEmptyQueue ==
    [][\A w \in Workers :
          (wPc[w] # "exited" /\ wPc'[w] = "exited") => (DrainBegun /\ requestCh = <<>>)]_vars

\* C27: the request channel is closed once, by the step close(wp.requestCh) of
\* workerPool.start, after drain has begun; that step never runs on a channel
\* that is already closed, and a closed channel stays closed.
C27_QueueClosedOnceBySupervisor ==
    [][/\ requestChClosed' # requestChClosed =>
            (~requestChClosed /\ supPc = "close" /\ supPc' = "wait" /\ DrainBegun)
       /\ (supPc = "close" /\ supPc' # supPc) => ~requestChClosed]_vars

C27_Witness ==
    /\ requestChClosed
    /\ supPc = "exited"
    /\ rootCancelled
    /\ stopCh
    /\ once = "done"

\* C28: a call of submit that has ended returned nil with the item enqueued
\* or returned one of its two errors; it has no other outcome.
C28_SubmitReturnsOneOfThree ==
    \A r \in Requests : hPc[r] = "done" => hRes[r] \in {"enqueued", "unavailable"}

\* C29: workerPool.start launches exactly PoolSize workers: wp.workers counts
\* the workers launched and never exceeds size, wp.wg counts the live ones,
\* and once the launch loop is over wp.workers equals size.
C29_ExactlyPoolSizeWorkers ==
    /\ wpWorkers <= PoolSize
    /\ wpWorkers = Cardinality({w \in Workers : wPc[w] # "unstarted"})
    /\ wpwg = Cardinality({w \in Workers : wPc[w] \in {"select", "processing"}})
    /\ wpwg <= PoolSize
    /\ supPc \in {"close", "wait", "exited"} => wpWorkers = PoolSize

C29_Witness ==
    /\ supPc = "close"
    /\ wpWorkers = PoolSize
    /\ \A w \in Workers : wPc[w] \in {"select", "processing"}

\* C30: once the root signal is cancelled the cache warmer enters no further
\* warmCache.
C30_NoRunAfterCancel ==
    [][rootCancelled => ~(cwPc = "select" /\ cwPc' = "warming")]_vars

\* C31: once the root context is cancelled the running cache warmer eventually
\* returns, also when the cancellation arrives while warmCache is running, and
\* in no state has the warmer returned with its ticker still live.
C31_WarmerReturnsTickerReleased ==
    /\ [](cwPc = "exited" => ~tickerLive)
    /\ (rootCancelled /\ cwPc \in {"select", "warming"}) ~> (cwPc = "exited")

C31_Witness ==
    /\ cwPc = "exited"
    /\ ~tickerLive
    /\ rootCancelled
    /\ once = "running"

\* The lifecycle state, read off the markers the Server keeps: Created (0)
\* until Start has returned nil, Running (1) until rootCancel(), Draining (2)
\* until shutdownCh is closed, Stopped (3) from then on.
LifecycleState ==
    IF shutdownCh THEN 3 ELSE IF rootCancelled THEN 2 ELSE IF started THEN 1 ELSE 0

\* C32: the lifecycle state never moves back: a started server stays started,
\* a cancelled root signal stays cancelled, a closed shutdownCh stays closed;
\* and shutdownCh is closed only by the one execution of the protocol, as its
\* last step, after every earlier step (dbConn.close() included) has run once.
C32_LifecycleMonotone ==
    [][/\ LifecycleState' >= LifecycleState
       /\ started => started'
       /\ rootCancelled => rootCancelled'
       /\ shutdownCh' # shutdownCh =>
            /\ ~shutdownCh
            /\ sPc[runner] = "closeCh" /\ sPc'[runner] = "returned"
            /\ once = "running" /\ once' = "done"
            /\ \A s \in Steps \ {"mark"} : ran[s] = 1
            /\ dbConn = "Closed"]_vars

C32_Witness ==
    /\ LifecycleState = 3
    /\ startRet = <<"nil">>
    /\ ran["close"] = 1
    /\ ran["mark"] = 1
    /\ dbConn = "Closed"
    /\ \A c \in Callers : sPc[c] = "returned"

\* C34: no submit executes its send case on the closed queue.
C34_NoSendOnClosedQueue ==
    [][\A r \in Requests : ~(requestChClosed /\ hPc[r] = "submit" /\ hRes'[r] = "panic")]_vars

\* ---------------------------------------------------------------- ShardedMap
\* A uint64 is its eight bytes, least significant first (TLC's integers have
\* 32 bits).  uint64(k) for an int key 0 <= k < 65536.
U64(k) == [i \in 1..8 |-> IF i = 1 THEN k % 256 ELSE IF i = 2 THEN (k \div 256) % 256 ELSE 0]

RECURSIVE XorByte(_, _)
XorByte(a, b) ==
    IF a = 0 /\ b = 0 THEN 0
    ELSE (((a % 2) + (b % 2)) % 2) + 2 * XorByte(a \div 2, b \div 2)

\* hash >> 33: four bytes and one bit to the right.
Shr33(x) ==
    [i \in 1..8 |->
        LET lo == IF i + 4 <= 8 THEN x[i + 4] ELSE 0
            hi == IF i + 5 <= 8 THEN x[i + 5] ELSE 0
        IN  (lo \div 2) + ((hi % 2) * 128)]

\* hash ^= hash >> 33
XorShr33(x) == [i \in 1..8 |-> XorByte(x[i], Shr33(x)[i])]

RECURSIVE ColSum(_, _, _, _)
ColSum(x, y, i, j) ==
    IF j > i THEN 0 ELSE (x[j] * y[i - j + 1]) + ColSum(x, y, i, j + 1)

RECURSIVE MulFrom(_, _, _, _)
MulFrom(x, y, i, carry) ==
    IF i > 8 THEN <<>>
    ELSE LET col == ColSum(x, y, i, 1) + carry
         IN  <<col % 256>> \o MulFrom(x, y, i + 1, col \div 256)

\* hash *= c, modulo 2^64.
Mul64(x, y) == MulFrom(x, y, 1, 0)

RECURSIVE ModFrom(_, _, _, _)
ModFrom(x, n, i, r) ==
    IF i = 0 THEN r ELSE ModFrom(x, n, i - 1, ((r * 256) + x[i]) % n)

\* hash % sm.shardCount
Mod64(x, n) == ModFrom(x, n, 8, 0)

\* 0xff51afd7ed558ccd and 0xc4ceb9fe1a85ec53
MixMul1 == <<205, 140, 85, 237, 215, 175, 81, 255>>
MixMul2 == <<83, 236, 133, 26, 254, 185, 206, 196>>

\* getShardIndex, case int: the mixing of the key, before the modulo.
mixInt(k) == XorShr33(Mul64(XorShr33(Mul64(XorShr33(U64(k)), MixMul1)), MixMul2))

\* getShardIndex for every key and every shard count a map can have.
getShardIndex == [k \in MapKeys, n \in 1..MaxShards |-> Mod64(mixInt(k), n)]

\* Everything that is not the sharded map.
nonMapVars == <<serverVars, stopVars, poolVars, warmerVars, handlerVars, lifeVars, unitVars, aggVars>>

ShardIds == 0..(mCount - 1)

\* NewShardedMap(n): a count below 1 becomes 1; every shard is an empty map
\* with an unlocked RWMutex.
NewShardedMap(n) ==
    /\ mCount = 0
    /\ LET c == IF n < 1 THEN 1 ELSE n
       IN  /\ mCount' = c
           /\ mShards' = [i \in 0..(c - 1) |-> [k \in MapKeys |-> 0]]
           /\ mWriter' = [i \in 0..(c - 1) |-> 0]
           /\ mReaders' = [i \in 0..(c - 1) |-> {}]
           /\ mWaitW' = [i \in 0..(c - 1) |-> {}]
    /\ UNCHANGED <<mPc, mOp, mI, mOut, mGot, mRef, mSnap>>
    /\ UNCHANGED nonMapVars

\* A call has returned: its arguments are gone, the name of the call stays.
Returned(o) == [op |-> o.op, k |-> 0, v |-> 0, s |-> 0]

\* sync.RWMutex: RLock succeeds when no writer holds the mutex and none is
\* blocked in Lock (a pending Lock keeps new readers out).
CanRLock(i) == mWriter[i] = 0 /\ mWaitW[i] = {}

\* Set(key, value) is called: the shard index is computed and Lock() is
\* entered.
SetCall(p, k, v) ==
    /\ mCount > 0
    /\ mPc[p] = "idle"
    /\ LET i == getShardIndex[k, mCount]
       IN  /\ mOp' = [mOp EXCEPT ![p] = [op |-> "set", k |-> k, v |-> v, s |-> i]]
           /\ mWaitW' = [mWaitW EXCEPT ![i] = @ \cup {p}]
    /\ mPc' = [mPc EXCEPT ![p] = "wlock"]
    /\ UNCHANGED <<mCount, mShards, mWriter, mReaders, mI, mOut, mGot, mRef, mSnap>>
    /\ UNCHANGED nonMapVars

\* Delete(key) is called: the shard index is computed and Lock() is entered.
DeleteCall(p, k) ==
    /\ mCount > 0
    /\ mPc[p] = "idle"
    /\ LET i == getShardIndex[k, mCount]
       IN  /\ mOp' = [mOp EXCEPT ![p] = [op |-> "delete", k |-> k, v |-> 0, s |-> i]]
           /\ mWaitW' = [mWaitW EXCEPT ![i] = @ \cup {p}]
    /\ mPc' = [mPc EXCEPT ![p] = "wlock"]
    /\ UNCHANGED <<mCount, mShards, mWriter, mReaders, mI, mOut, mGot, mRef, mSnap>>
    /\ UNCHANGED nonMapVars

\* shardMutex[shardIndex].Lock() returns: no reader and no writer holds it.
LockAcquire(p) ==
    /\ mPc[p] = "wlock"
    /\ LET i == mOp[p].s
       IN  /\ mWriter[i] = 0
           /\ mReaders[i] = {}
           /\ mWriter' = [mWriter EXCEPT ![i] = p]
           /\ mWaitW' = [mWaitW EXCEPT ![i] = @ \ {p}]
    /\ mPc' = [mPc EXCEPT ![p] = "write"]
    /\ UNCHANGED <<mCount, mShards, mReaders, mOp, mI, mOut, mGot, mRef, mSnap>>
    /\ UNCHANGED nonMapVars

\* A Set that stores into shard 0 whatever the key's shard is.
SetFirstShard(p) ==
    /\ mPc[p] = "write"
    /\ mOp[p].op = "set"
    /\ mShards' = [mShards EXCEPT ![0][mOp[p].k] = mOp[p].v]
    /\ mRef' = [mRef EXCEPT ![mOp[p].k] = mOp[p].v]
    /\ mWriter' = [mWriter EXCEPT ![mOp[p].s] = 0]
    /\ mPc' = [mPc EXCEPT ![p] = "idle"]
    /\ mOp' = [mOp EXCEPT ![p] = Returned(@)]
    /\ UNCHANGED <<mCount, mReaders, mWaitW, mI, mOut, mGot, mSnap>>
    /\ UNCHANGED nonMapVars

\* Set: sm.shards[shardIndex][key] = value, then the deferred Unlock.
Set(p) ==
    /\ mPc[p] = "write"
    /\ mOp[p].op = "set"
    /\ mShards' = [mShards EXCEPT ![mOp[p].s][mOp[p].k] = mOp[p].v]
    /\ mRef' = [mRef EXCEPT ![mOp[p].k] = mOp[p].v]
    /\ mWriter' = [mWriter EXCEPT ![mOp[p].s] = 0]
    /\ mPc' = [mPc EXCEPT ![p] = "idle"]
    /\ mOp' = [mOp EXCEPT ![p] = Returned(@)]
    /\ UNCHANGED <<mCount, mReaders, mWaitW, mI, mOut, mGot, mSnap>>
    /\ UNCHANGED nonMapVars

\* A Delete that empties the shard of the key instead of removing the key.
DeleteWholeShard(p) ==
    /\ mPc[p] = "write"
    /\ mOp[p].op = "delete"
    /\ mShards' = [mShards EXCEPT ![mOp[p].s] = [k \in MapKeys |-> 0]]
    /\ mRef' = [mRef EXCEPT ![mOp[p].k] = 0]
    /\ mWriter' = [mWriter EXCEPT ![mOp[p].s] = 0]
    /\ mPc' = [mPc EXCEPT ![p] = "idle"]
    /\ mOp' = [mOp EXCEPT ![p] = Returned(@)]
    /\ UNCHANGED <<mCount, mReaders, mWaitW, mI, mOut, mGot, mSnap>>
    /\ UNCHANGED nonMapVars

\* Delete: delete(sm.shards[shardIndex], key), then the deferred Unlock.
Delete(p) ==
    /\ mPc[p] = "write"
    /\ mOp[p].op = "delete"
    /\ mShards' = [mShards EXCEPT ![mOp[p].s][mOp[p].k] = 0]
    /\ mRef' = [mRef EXCEPT ![mOp[p].k] = 0]
    /\ mWriter' = [mWriter EXCEPT ![mOp[p].s] = 0]
    /\ mPc' = [mPc EXCEPT ![p] = "idle"]
    /\ mOp' = [mOp EXCEPT ![p] = Returned(@)]
    /\ UNCHANGED <<mCount, mReaders, mWaitW, mI, mOut, mGot, mSnap>>
    /\ UNCHANGED nonMapVars

\* Get(key) is called: the shard index is computed and RLock() is entered.
GetCall(p, k) ==
    /\ mCount > 0
    /\ mPc[p] = "idle"
    /\ mOp' = [mOp EXCEPT ![p] = [op |-> "get", k |-> k, v |-> 0, s |-> getShardIndex[k, mCount]]]
    /\ mPc' = [mPc EXCEPT ![p] = "rlock"]
    /\ UNCHANGED <<mCount, mShards, mWriter, mReaders, mWaitW, mI, mOut, mGot, mRef, mSnap>>
    /\ UNCHANGED nonMapVars

\* Get: RLock() returns and value, exists := sm.shards[shardIndex][key].
Get(p) ==
    /\ mPc[p] = "rlock"
    /\ CanRLock(mOp[p].s)
    /\ mReaders' = [mReaders EXCEPT ![mOp[p].s] = @ \cup {p}]
    /\ mGot' = [mGot EXCEPT ![p] = mShards[mOp[p].s][mOp[p].k]]
    /\ mPc' = [mPc EXCEPT ![p] = "gunlock"]
    /\ UNCHANGED <<mCount, mShards, mWriter, mWaitW, mOp, mI, mOut, mRef, mSnap>>
    /\ UNCHANGED nonMapVars

\* Get: the deferred RUnlock; Get returns.
GetReturn(p) ==
    /\ mPc[p] = "gunlock"
    /\ mReaders' = [mReaders EXCEPT ![mOp[p].s] = @ \ {p}]
    /\ mPc' = [mPc EXCEPT ![p] = "idle"]
    /\ mOp' = [mOp EXCEPT ![p] = Returned(@)]
    /\ mGot' = [mGot EXCEPT ![p] = 0]
    /\ UNCHANGED <<mCount, mShards, mWriter, mWaitW, mI, mOut, mRef, mSnap>>
    /\ UNCHANGED nonMapVars

\* Keys() is called: the loop that read-locks every shard begins.
KeysCall(p) ==
    /\ mCount > 0
    /\ mPc[p] = "idle"
    /\ mOp' = [mOp EXCEPT ![p] = [op |-> "keys", k |-> 0, v |-> 0, s |-> 0]]
    /\ mI' = [mI EXCEPT ![p] = 0]
    /\ mOut' = [mOut EXCEPT ![p] = <<>>]
    /\ mPc' = [mPc EXCEPT ![p] = "klock"]
    /\ UNCHANGED <<mCount, mShards, mWriter, mReaders, mWaitW, mGot, mRef, mSnap>>
    /\ UNCHANGED nonMapVars

\* Keys that goes through the locking loop without taking the locks.
KeysRLockNone(p) ==
    /\ mPc[p] = "klock"
    /\ IF mI[p] + 1 = mCount
         THEN /\ mPc' = [mPc EXCEPT ![p] = "kread"]
              /\ mI' = [mI EXCEPT ![p] = 0]
              /\ mSnap' = [mSnap EXCEPT ![p] = mRef]
         ELSE /\ mPc' = mPc
              /\ mI' = [mI EXCEPT ![p] = @ + 1]
              /\ mSnap' = mSnap
    /\ UNCHANGED <<mCount, mShards, mWriter, mReaders, mWaitW, mOp, mOut, mGot, mRef>>
    /\ UNCHANGED nonMapVars

\* Keys: sm.shardMutex[i].RLock() of the locking loop, in ascending order of
\* i; after the last one every shard is read-locked.
KeysRLock(p) ==
    /\ mPc[p] = "klock"
    /\ CanRLock(mI[p])
    /\ mReaders' = [mReaders EXCEPT ![mI[p]] = @ \cup {p}]
    /\ IF mI[p] + 1 = mCount
         THEN /\ mPc' = [mPc EXCEPT ![p] = "kread"]
              /\ mI' = [mI EXCEPT ![p] = 0]
              /\ mSnap' = [mSnap EXCEPT ![p] = mRef]
         ELSE /\ mPc' = mPc
              /\ mI' = [mI EXCEPT ![p] = @ + 1]
              /\ mSnap' = mSnap
    /\ UNCHANGED <<mCount, mShards, mWriter, mWaitW, mOp, mOut, mGot, mRef>>
    /\ UNCHANGED nonMapVars

\* The keys of one shard as a slice.  Go ranges over a map in an unspecified
\* order; the order plays no part below, so the keys come in ascending order.
RECURSIVE KeysFrom(_, _)
KeysFrom(shard, k) ==
    IF k > MaxKey THEN <<>>
    ELSE (IF shard[k] # 0 THEN <<k>> ELSE <<>>) \o KeysFrom(shard, k + 1)

\* A collecting loop that read-locks the shard once more before it reads it
\* (as a Keys built on a locking accessor would): a recursive RLock.
KeysCollectRLock(p) ==
    /\ mPc[p] = "kread"
    /\ CanRLock(mI[p])
    /\ mOut' = [mOut EXCEPT ![p] = @ \o KeysFrom(mShards[mI[p]], 0)]
    /\ IF mI[p] + 1 = mCount
         THEN /\ mPc' = [mPc EXCEPT ![p] = "kunlock"]
              /\ mI' = [mI EXCEPT ![p] = 0]
         ELSE /\ mPc' = mPc
              /\ mI' = [mI EXCEPT ![p] = @ + 1]
    /\ UNCHANGED <<mCount, mShards, mWriter, mReaders, mWaitW, mOp, mGot, mRef, mSnap>>
    /\ UNCHANGED nonMapVars

\* Keys: one iteration of the collecting loop, for key := range sm.shards[i]
\* { keys = append(keys, key) }.  (The loop before it only sums the lengths
\* for the capacity of the slice.)
KeysCollect(p) ==
    /\ mPc[p] = "kread"
    /\ mOut' = [mOut EXCEPT ![p] = @ \o KeysFrom(mShards[mI[p]], 0)]
    /\ IF mI[p] + 1 = mCount
         THEN /\ mPc' = [mPc EXCEPT ![p] = "kunlock"]
              /\ mI' = [mI EXCEPT ![p] = 0]
         ELSE /\ mPc' = mPc
              /\ mI' = [mI EXCEPT ![p] = @ + 1]
    /\ UNCHANGED <<mCount, mShards, mWriter, mReaders, mWaitW, mOp, mGot, mRef, mSnap>>
    /\ UNCHANGED nonMapVars

\* Keys: the deferred loop of RUnlock over every shard; Keys returns.
KeysReturn(p) ==
    /\ mPc[p] = "kunlock"
    /\ mReaders' = [i \in ShardIds |-> mReaders[i] \ {p}]
    /\ mOut' = [mOut EXCEPT ![p] = <<>>]
    /\ mSnap' = [mSnap EXCEPT ![p] = <<>>]
    /\ mPc' = [mPc EXCEPT ![p] = "idle"]
    /\ mOp' = [mOp EXCEPT ![p] = Returned(@)]
    /\ UNCHANGED <<mCount, mShards, mWriter, mWaitW, mI, mGot, mRef>>
    /\ UNCHANGED nonMapVars

\* The map requested with each count 0..MaxShards and called by MapProcs
\* goroutines, each making one call after the other.
MapNext ==
    \/ \E n \in 0..MaxShards : NewShardedMap(n)
    \/ \E p \in MapProcs, k \in MapKeys, v \in MapVals : SetCall(p, k, v)
    \/ \E p \in MapProcs, k \in MapKeys : DeleteCall(p, k)
    \/ \E p \in MapProcs : LockAcquire(p)
    \/ \E p \in MapProcs : Set(p)
    \/ \E p \in MapProcs : Delete(p)
    \/ \E p \in MapProcs, k \in MapKeys : GetCall(p, k)
    \/ \E p \in MapProcs : Get(p)
    \/ \E p \in MapProcs : GetReturn(p)
    \/ \E p \in MapProcs : KeysCall(p)
    \/ \E p \in MapProcs : KeysRLock(p)
    \/ \E p \in MapProcs : KeysCollect(p)
    \/ \E p \in MapProcs : KeysReturn(p)

MapSpec == Init /\ [][MapNext]_vars

\* The keys present in a plain map.
Present(m) == {k \in MapKeys : m[k] # 0}

SeqRange(q) == {q[i] : i \in 1..Len(q)}

ValueOf == [k \in MapKeys |-> k + 1]

\* The writer goroutine that sets a key: the writers' key ranges are disjoint.
WriterOf == [k \in MapKeys |-> (k % NumMapProcs) + 1]

\* A writer goroutine calls sm.Set(key, value) for one of its keys.
writerSet(p, k) ==
    /\ WriterOf[k] = p
    /\ SetCall(p, k, ValueOf[k])

\* The writers and readers of the test on a map of each shard count; a
\* goroutine may write its keys and read any key, one call after the other.
ReadWriteNext ==
    \/ \E n \in 0..MaxShards : NewShardedMap(n)
    \/ \E p \in MapProcs, k \in MapKeys : writerSet(p, k)
    \/ \E p \in MapProcs : LockAcquire(p)
    \/ \E p \in MapProcs : Set(p)
    \/ \E p \in MapProcs, k \in MapKeys : GetCall(p, k)
    \/ \E p \in MapProcs : Get(p)
    \/ \E p \in MapProcs : GetReturn(p)

ReadWriteSpec == Init /\ [][ReadWriteNext]_vars

\* A Set of the key has returned.
Written(k) == mRef[k] # 0

NoCallYet(p) == mOp[p].op = "none"

mixSet(p, k, v) == NoCallYet(p) /\ SetCall(p, k, v)

mixDelete(p, k) == NoCallYet(p) /\ DeleteCall(p, k)

mixGet(p, k) == NoCallYet(p) /\ GetCall(p, k)

mixKeys(p) == NoCallYet(p) /\ KeysCall(p)

\* The steps of a call that is in progress.
callStep(p) ==
    \/ LockAcquire(p)
    \/ Set(p)
    \/ Delete(p)
    \/ Get(p)
    \/ GetReturn(p)
    \/ KeysRLock(p)
    \/ KeysCollect(p)
    \/ KeysReturn(p)

\* Every mix of Set, Delete, Get and Keys, one call per goroutine, the calls
\* overlapping in every way, on a map of each shard count.  (A call that has
\* returned holds no lock, so what a goroutine called before does not matter
\* to the locks.)
MixNext ==
    \/ \E n \in 0..MaxShards : NewShardedMap(n)
    \/ \E p \in MixProcs, k \in MapKeys, v \in MapVals : mixSet(p, k, v)
    \/ \E p \in MixProcs, k \in MapKeys : mixDelete(p, k)
    \/ \E p \in MixProcs, k \in MapKeys : mixGet(p, k)
    \/ \E p \in MixProcs : mixKeys(p)
    \/ \E p \in MixProcs : callStep(p)

\* The Go scheduler runs every goroutine that can take a step.
MixSpec ==
    /\ Init
    /\ [][MixNext]_vars
    /\ \A p \in MixProcs : WF_vars(callStep(p))

\* C35: the map cannot deadlock: while a call is in progress some call can
\* take a step, and every call that was made returns; the mutexes keep new
\* readers out while a writer waits.
C35_DeadlockFree ==
    /\ []((\E p \in MixProcs : mPc[p] # "idle") => (\E q \in MixProcs : ENABLED callStep(q)))
    /\ \A p \in MixProcs : (mPc[p] # "idle") ~> (mPc[p] = "idle")

\* A Keys call holds shard 0 and waits for shard 1 behind a waiting writer,
\* which waits for a reader of shard 1.
C35_Witness ==
    /\ mCount >= 2
    /\ \E p, q, r \in MixProcs :
          /\ mPc[p] = "klock" /\ mI[p] = 1 /\ p \in mReaders[0]
          /\ mPc[q] = "wlock" /\ mOp[q].s = 1 /\ q \in mWaitW[1]
          /\ mPc[r] = "gunlock" /\ r \in mReaders[1]

\* ---------------------------------------------------------------- UserAggregator
Services == {"profile", "order"}

\* Everything that is not the aggregator.
nonAggVars == <<serverVars, stopVars, poolVars, warmerVars, handlerVars, lifeVars, unitVars, mapVars>>

\* What a successful Fetch of each service returns.
FetchValue == [s \in Services |-> IF s = "profile" THEN "Name: Alice" ELSE "Orders: 5"]

\* New(opts...) and the WithError() calls of the caller: each service fails or
\* not.  The delays and the timeout are durations; their order shows as the
\* order of the timer events below.
New(pe, oe) ==
    /\ aState = "none"
    /\ aState' = "ready"
    /\ aWillErr' = [s \in Services |-> IF s = "profile" THEN pe ELSE oe]
    /\ UNCHANGED <<fPc, fRes, gCtxErr, gErr, aErrLog, aResult, aRet>>
    /\ UNCHANGED nonAggVars

\* Aggregate up to the first g.Go: the timeout context, the errgroup with
\* gCtx, and the goroutine of the profile fetch is launched.
Aggregate ==
    /\ aState = "ready"
    /\ aState' = "launching"
    /\ fPc' = [fPc EXCEPT !["profile"] = "start"]
    /\ UNCHANGED <<aWillErr, fRes, gCtxErr, gErr, aErrLog, aResult, aRet>>
    /\ UNCHANGED nonAggVars

\* Aggregate, the second g.Go: the goroutine of the order fetch is launched
\* (the profile goroutine may have run meanwhile); then g.Wait() is entered.
AggregateGoOrder ==
    /\ aState = "launching"
    /\ aState' = "running"
    /\ fPc' = [fPc EXCEPT !["order"] = "start"]
    /\ UNCHANGED <<aWillErr, fRes, gCtxErr, gErr, aErrLog, aResult, aRet>>
    /\ UNCHANGED nonAggVars

\* The deadline of context.WithTimeout(ctx, a.timeout) passes: ctx and its
\* child gCtx are done with DeadlineExceeded, unless gCtx was cancelled before.
aggTimeout ==
    /\ aState \in {"launching", "running"}
    /\ gCtxErr = "none"
    /\ gCtxErr' = "deadline"
    /\ UNCHANGED <<aState, aWillErr, fPc, fRes, gErr, aErrLog, aResult, aRet>>
    /\ UNCHANGED nonAggVars

\* An errgroup that keeps the error of the last goroutine that failed.
GoReturnLastErr(s, e) ==
    /\ fPc' = [fPc EXCEPT ![s] = "done"]
    /\ fRes' = [fRes EXCEPT ![s] = e]
    /\ aErrLog' = Append(aErrLog, <<s, e>>)
    /\ gErr' = <<s, e>>
    /\ gCtxErr' = IF gCtxErr = "none" THEN "canceled" ELSE gCtxErr

\* The function given to g.Go returns the wrapped error e of service s: the
\* errgroup keeps the first error it is given (errOnce) and cancels gCtx.
GoReturnErr(s, e) ==
    /\ fPc' = [fPc EXCEPT ![s] = "done"]
    /\ fRes' = [fRes EXCEPT ![s] = e]
    /\ aErrLog' = Append(aErrLog, <<s, e>>)
    /\ gErr' = IF gErr = <<>> THEN <<s, e>> ELSE gErr
    /\ gCtxErr' = IF gCtxErr = "none" THEN "canceled" ELSE gCtxErr

\* Fetch is entered: with willErr it returns "unavailable"; otherwise it
\* enters its select, where time.After(delay) was just created and cannot be
\* ready, so it returns ctx.Err() if gCtx is done and blocks if not.
FetchEnter(s) ==
    /\ fPc[s] = "start"
    /\ IF aWillErr[s]
         THEN GoReturnErr(s, "unavailable")
         ELSE IF gCtxErr # "none"
                THEN GoReturnErr(s, gCtxErr)
                ELSE /\ fPc' = [fPc EXCEPT ![s] = "waiting"]
                     /\ UNCHANGED <<fRes, gCtxErr, gErr, aErrLog>>
    /\ UNCHANGED <<aState, aWillErr, aResult, aRet>>
    /\ UNCHANGED nonAggVars

\* Fetch, case <-time.After(s.delay), for a goroutine blocked in the select:
\* the timer fires while gCtx is not done; the goroutine stores the result
\* and returns nil.
FetchTimer(s) ==
    /\ fPc[s] = "waiting"
    /\ gCtxErr = "none"
    /\ fPc' = [fPc EXCEPT ![s] = "done"]
    /\ fRes' = [fRes EXCEPT ![s] = "ok"]
    /\ aResult' = [aResult EXCEPT ![s] = FetchValue[s]]
    /\ UNCHANGED <<aState, aWillErr, gCtxErr, gErr, aErrLog, aRet>>
    /\ UNCHANGED nonAggVars

\* Fetch, case <-ctx.Done(), for a goroutine blocked in the select: gCtx is
\* done before the timer fired; Fetch returns ctx.Err().
FetchCtxDone(s) ==
    /\ fPc[s] = "waiting"
    /\ gCtxErr # "none"
    /\ GoReturnErr(s, gCtxErr)
    /\ UNCHANGED <<aState, aWillErr, aResult, aRet>>
    /\ UNCHANGED nonAggVars

\* An Aggregate that returns at the first error without waiting for the other
\* goroutine (a wait on an error channel instead of g.Wait()).
AggregateReturnAtFirstErr ==
    /\ aState = "running"
    /\ gErr # <<>> \/ \A s \in Services : fPc[s] = "done"
    /\ aState' = "returned"
    /\ aRet' = IF gErr # <<>>
                 THEN [result |-> <<>>, err |-> gErr]
                 ELSE [result |-> <<"User", aResult["profile"], aResult["order"]>>, err |-> <<>>]
    /\ gCtxErr' = IF gCtxErr = "none" THEN "canceled" ELSE gCtxErr
    /\ UNCHANGED <<aWillErr, fPc, fRes, gErr, aErrLog, aResult>>
    /\ UNCHANGED nonAggVars

\* An Aggregate that formats and returns the result whatever g.Wait() returned.
AggregateReturnAlways ==
    /\ aState = "running"
    /\ \A s \in Services : fPc[s] = "done"
    /\ aState' = "returned"
    /\ aRet' = [result |-> <<"User", aResult["profile"], aResult["order"]>>, err |-> <<>>]
    /\ gCtxErr' = IF gCtxErr = "none" THEN "canceled" ELSE gCtxErr
    /\ UNCHANGED <<aWillErr, fPc, fRes, gErr, aErrLog, aResult>>
    /\ UNCHANGED nonAggVars

\* g.Wait() returns when both goroutines have returned (and cancels gCtx);
\* Aggregate returns ("", err) or the formatted result and nil.
AggregateReturn ==
    /\ aState = "running"
    /\ \A s \in Services : fPc[s] = "done"
    /\ aState' = "returned"
    /\ aRet' = IF gErr # <<>>
                 THEN [result |-> <<>>, err |-> gErr]
                 ELSE [result |-> <<"User", aResult["profile"], aResult["order"]>>, err |-> <<>>]
    /\ gCtxErr' = IF gCtxErr = "none" THEN "canceled" ELSE gCtxErr
    /\ UNCHANGED <<aWillErr, fPc, fRes, gErr, aErrLog, aResult>>
    /\ UNCHANGED nonAggVars

AggNext ==
    \/ \E pe \in BOOLEAN, oe \in BOOLEAN : New(pe, oe)
    \/ Aggregate
    \/ AggregateGoOrder
    \/ aggTimeout
    \/ \E s \in Services : FetchEnter(s)
    \/ \E s \in Services : FetchTimer(s)
    \/ \E s \in Services : FetchCtxDone(s)
    \/ AggregateReturn

AggSpec == Init /\ [][AggNext]_vars

\* C23: when Aggregate has returned, its error is nil exactly when both
\* fetches succeeded (each timer fired before gCtx was done); then the result
\* is the combination of the two values, and otherwise it is empty.
C23_ResultIffBothSucceed ==
    aState = "returned" =>
        /\ aRet.err = <<>> <=> \A s \in Services : fRes[s] = "ok"
        /\ aRet.err = <<>> => aRet.result = <<"User", "Name: Alice", "Orders: 5">>
        /\ aRet.err # <<>> => aRet.result = <<>>
        /\ (\E s \in Services : aWillErr[s] \/ fRes[s] = "deadline") => aRet.err # <<>>

C23_Witness ==
    /\ aState = "returned"
    /\ aRet.err = <<>>
    /\ aRet.result = <<"User", "Name: Alice", "Orders: 5">>
    /\ gCtxErr = "canceled"

\* C24: a fetch succeeds only while gCtx is not done, so a fetch pending when
\* its sibling failed ends with the cancellation and not with its timer; and
\* Aggregate returns the first error a goroutine returned.
C24_FailFastFirstError ==
    [][/\ \A s \in Services : (fRes[s] # "ok" /\ fRes'[s] = "ok") => (gCtxErr = "none" /\ aErrLog = <<>>)
       /\ (aState' = "returned" /\ aErrLog' # <<>>) => aRet'.err = Head(aErrLog')]_vars

C24_Witness ==
    /\ aState = "returned"
    /\ aErrLog = << <<"profile", "unavailable">>, <<"order", "canceled">> >>
    /\ ~aWillErr["order"]
    /\ aRet.err = <<"profile", "unavailable">>

\* C36: Aggregate returns only when both goroutines of the errgroup have
\* returned, and once it has returned no goroutine takes a step and
\* profileResult and orderResult are not written.
C36_ReturnsAfterBothFinished ==
    [][/\ aState' = "returned" => \A s \in Services : fPc'[s] = "done"
       /\ aState = "returned" => (fPc' = fPc /\ fRes' = fRes /\ aResult' = aResult)]_vars

\* The failure path on which the sibling had to be waited for: the profile
\* fetch failed, the pending order fetch ended with the cancellation.
C36_Witness ==
    /\ aState = "returned"
    /\ fRes["profile"] = "unavailable"
    /\ fRes["order"] = "canceled"
    /\ \A s \in Services : fPc[s] = "done"
    /\ aRet.err = <<"profile", "unavailable">>

\* ---------------------------------------------------------------- keys of other types
\* fnv64aHash: offset64 and prime64 as bytes, and the loop over the data.
offset64 == <<37, 35, 34, 132, 228, 156, 242, 203>>
prime64 == <<179, 1, 0, 0, 0, 1, 0, 0>>

RECURSIVE fnvFrom(_, _, _)
fnvFrom(data, i, hash) ==
    IF i > Len(data) THEN hash
    ELSE fnvFrom(data, i + 1, Mul64([hash EXCEPT ![1] = XorByte(@, data[i])], prime64))

fnv64aHash(data) == fnvFrom(data, 1, offset64)

\* The memory of a float64 key with the value k (a small whole number), as
\* unsafe.Slice((*byte)(keyPtr), keySize) reads it: sign, exponent and the
\* top of the mantissa are in the last two bytes.
Float64Bytes(k, negative) ==
    LET e == CHOOSE x \in 0..4 : 2^x <= k /\ k < 2^(x + 1)
        top == IF k = 0 THEN 0 ELSE 1023 + e
        mant == IF k = 0 THEN 0 ELSE ((k - 2^e) * 16) \div 2^e
        sign == IF negative THEN 128 ELSE 0
    IN  <<0, 0, 0, 0, 0, 0, ((top % 16) * 16) + mant, sign + (top \div 16)>>

\* The memories a key of ShardedMap[float64, V] can have: 0.0 and its negation
\* are equal (one key of a Go map) and differ in the sign bit.
KeyBytes == [k \in MapKeys |-> IF k = 0 THEN {Float64Bytes(0, FALSE), Float64Bytes(0, TRUE)}
                                        ELSE {Float64Bytes(k, FALSE)}]

AllKeyBytes == UNION {KeyBytes[k] : k \in MapKeys}

\* getShardIndex, default case: FNV-1a over the key's memory, modulo the count.
getShardIndexDefault == [b \in AllKeyBytes, n \in 1..MaxShards |-> Mod64(fnv64aHash(b), n)]

\* Set(key, value) with a float64 key whose memory is b.
SetFloat64(p, k, b, v) ==
    /\ mCount > 0
    /\ mPc[p] = "idle"
    /\ b \in KeyBytes[k]
    /\ LET i == getShardIndexDefault[b, mCount]
       IN  /\ mOp' = [mOp EXCEPT ![p] = [op |-> "set", k |-> k, v |-> v, s |-> i]]
           /\ mWaitW' = [mWaitW EXCEPT ![i] = @ \cup {p}]
    /\ mPc' = [mPc EXCEPT ![p] = "wlock"]
    /\ UNCHANGED <<mCount, mShards, mWriter, mReaders, mI, mOut, mGot, mRef, mSnap>>
    /\ UNCHANGED nonMapVars

\* Get(key) with a float64 key whose memory is b.
GetFloat64(p, k, b) ==
    /\ mCount > 0
    /\ mPc[p] = "idle"
    /\ b \in KeyBytes[k]
    /\ mOp' = [mOp EXCEPT ![p] = [op |-> "get", k |-> k, v |-> 0, s |-> getShardIndexDefault[b, mCount]]]
    /\ mPc' = [mPc EXCEPT ![p] = "rlock"]
    /\ UNCHANGED <<mCount, mShards, mWriter, mReaders, mWaitW, mI, mOut, mGot, mRef, mSnap>>
    /\ UNCHANGED nonMapVars

\* A ShardedMap[float64, V] of each shard count under Set and Get.
Float64Next ==
    \/ \E n \in 0..MaxShards : NewShardedMap(n)
    \/ \E p \in MapProcs, k \in MapKeys, b \in AllKeyBytes, v \in MapVals : SetFloat64(p, k, b, v)
    \/ \E p \in MapProcs : LockAcquire(p)
    \/ \E p \in MapProcs : Set(p)
    \/ \E p \in MapProcs, k \in MapKeys, b \in AllKeyBytes : GetFloat64(p, k, b)
    \/ \E p \in MapProcs : Get(p)
    \/ \E p \in MapProcs : GetReturn(p)

Float64Spec == Init /\ [][Float64Next]_vars

\* C37: the shard index of every call is below the shard count, and no key
\* is in more than one shard.
C37_OneShardPerKey ==
    mCount > 0 =>
        /\ \A p \in MapProcs : mPc[p] # "idle" /\ mOp[p].op # "keys" => mOp[p].s \in ShardIds
        /\ \A k \in MapKeys : Cardinality({i \in ShardIds : mShards[i][k] # 0}) <= 1

====
